---- MODULE Spec2Model ----
(***************************************************************************)
(* BankCashFlowAnalyzer (src/analytics/cashflow_analyzer.py) as a state    *)
(* machine: one analyzer object, its four fields, and one action per       *)
(* public method.                                                          *)
(*                                                                         *)
(* Representation                                                          *)
(*   str     a sequence of one-character strings, compared by code point   *)
(*   dict    a function whose DOMAIN is the set of keys present            *)
(*   float   an exact fraction [num, den] with den > 0                     *)
(*   object  [shape, fields]: an attribute-bearing record or a mapping     *)
(***************************************************************************)
EXTENDS Integers, Sequences, FiniteSets, TLC

VARIABLES
    transactions,   \* self.transactions
    monthly_data,   \* self.monthly_data: period key -> MonthlyData
    analysis,       \* self.analysis: analysis name -> result dict
    last,           \* the last call: its name, whether it raised, what it returned,
                    \* whether monthly_data was empty before it (fresh) and
                    \* whether the call before it was the same (again)
    ran,            \* the analysis methods called since the inputs last changed
    base,           \* self.analysis as it was when the inputs last changed
    nSteps          \* calls made on the analyzer so far

vars == <<transactions, monthly_data, analysis, last, ran, base, nSteps>>

\* ------------------------------------------------------------------ bounds

\* The calls made on one analyzer, and the longest list load_transactions is given.
MaxSteps == 4
MaxTxns == 2
\* The most buckets monthly_data holds where the trailing windows are checked.
MaxBuckets == 13
\* The most months add_monthly_summary is given where the trend is checked.
MaxTrendMonths == 4

\* ----------------------------------------------------------------- strings

Digit == <<"0", "1", "2", "3", "4", "5", "6", "7", "8", "9">>
UpperLetters == <<"A", "B", "C", "D", "E", "F", "G", "H", "I", "J", "K", "L", "M",
                  "N", "O", "P", "Q", "R", "S", "T", "U", "V", "W", "X", "Y", "Z">>
LowerLetters == <<"a", "b", "c", "d", "e", "f", "g", "h", "i", "j", "k", "l", "m",
                  "n", "o", "p", "q", "r", "s", "t", "u", "v", "w", "x", "y", "z">>

\* The characters used, in code point order.
Chars == <<" ", "-", "/">> \o Digit \o <<":">> \o UpperLetters \o LowerLetters

Ord(c) == CHOOSE i \in 1..Len(Chars) : Chars[i] = c

IsDigit(c) == \E i \in 1..Len(Digit) : Digit[i] = c

DigitVal(c) == (CHOOSE i \in 1..Len(Digit) : Digit[i] = c) - 1

\* str < str
RECURSIVE StrLess(_, _)
StrLess(a, b) ==
    IF a = <<>> THEN b # <<>>
    ELSE IF b = <<>> THEN FALSE
    ELSE IF Head(a) = Head(b) THEN StrLess(Tail(a), Tail(b))
    ELSE Ord(Head(a)) < Ord(Head(b))

UpperChar(c) ==
    IF \E i \in 1..Len(LowerLetters) : LowerLetters[i] = c
    THEN UpperLetters[CHOOSE i \in 1..Len(LowerLetters) : LowerLetters[i] = c]
    ELSE c

\* str.upper()
Upper(s) == [i \in 1..Len(s) |-> UpperChar(s[i])]

\* sub in s
Contains(s, sub) ==
    \E i \in 1..(Len(s) - Len(sub) + 1) : SubSeq(s, i, i + Len(sub) - 1) = sub

\* str.split(sep) for a one-character separator
RECURSIVE Split(_, _)
Split(s, sep) ==
    IF \A i \in 1..Len(s) : s[i] # sep THEN <<s>>
    ELSE LET i == CHOOSE i \in 1..Len(s) : s[i] = sep /\ \A j \in 1..(i - 1) : s[j] # sep
         IN  <<SubSeq(s, 1, i - 1)>> \o Split(SubSeq(s, i + 1, Len(s)), sep)

\* format(n, 'd')
RECURSIVE NatStr(_)
NatStr(n) == IF n < 10 THEN <<Digit[n + 1]>> ELSE NatStr(n \div 10) \o <<Digit[(n % 10) + 1]>>

IntStr(n) == IF n < 0 THEN <<"-">> \o NatStr(-n) ELSE NatStr(n)

\* format(n, '02d')
Pad2(n) == IF Len(IntStr(n)) < 2 THEN <<"0">> \o IntStr(n) ELSE IntStr(n)

IsDigits(s) == s # <<>> /\ \A i \in 1..Len(s) : IsDigit(s[i])

\* int(s) of a digit string
RECURSIVE ParseNat(_)
ParseNat(s) ==
    IF s = <<>> THEN 0 ELSE 10 * ParseNat(SubSeq(s, 1, Len(s) - 1)) + DigitVal(s[Len(s)])

\* ------------------------------------------------------------------ values

EmptyDict == [k \in {} |-> 0]

Put(d, k, v) == [x \in (DOMAIN d) \cup {k} |-> IF x = k THEN v ELSE d[x]]

\* dict.get(k, default)
Get(d, k, default) == IF k \in DOMAIN d THEN d[k] ELSE default

Frac(n, d) == [num |-> n, den |-> d]

FZero == Frac(0, 1)

RECURSIVE SumSeq(_)
SumSeq(s) == IF s = <<>> THEN 0 ELSE Head(s) + SumSeq(Tail(s))

SeqMax(s) == CHOOSE x \in {s[i] : i \in 1..Len(s)} : \A j \in 1..Len(s) : s[j] <= x

SeqMin(s) == CHOOSE x \in {s[i] : i \in 1..Len(s)} : \A j \in 1..Len(s) : x <= s[j]

\* np.mean of a non-empty list of integers
Mean(s) == Frac(SumSeq(s), Len(s))

Abs(x) == IF x < 0 THEN -x ELSE x

NoneVal == [kind |-> "none"]

StrVal(s) == [kind |-> "str", chars |-> s]

DateVal(y, m, d) == [kind |-> "date", year |-> y, month |-> m, day |-> d]

\* bool(v)
Truthy(v) ==
    CASE v.kind = "none" -> FALSE
      [] v.kind = "str" -> v.chars # <<>>
      [] OTHER -> TRUE

\* ------------------------------------------------------------------- dates

IsLeap(y) == (y % 4 = 0 /\ y % 100 # 0) \/ y % 400 = 0

DaysInMonth(y, m) ==
    IF m = 2 THEN (IF IsLeap(y) THEN 29 ELSE 28)
    ELSE IF m \in {4, 6, 9, 11} THEN 30 ELSE 31

\* The %Y, %m and %d directives of strptime, each on one whole field.
MatchYear(f) == IsDigits(f) /\ Len(f) = 4

MatchMonth(f) == IsDigits(f) /\ Len(f) <= 2 /\ ParseNat(f) \in 1..12

MatchDay(f) ==
    \/ IsDigits(f) /\ Len(f) <= 2 /\ ParseNat(f) \in 1..31
    \/ Len(f) = 2 /\ f[1] = " " /\ IsDigit(f[2]) /\ f[2] # "0"

DayVal(f) == IF f[1] = " " THEN DigitVal(f[2]) ELSE ParseNat(f)

\* datetime(y, m, d) is a date
ValidDate(y, m, d) == y >= 1 /\ d <= DaysInMonth(y, m)

\* The date of the year, month and day fields once each matched its directive,
\* NoneVal where a field does not match or datetime() rejects the day.
DateOfFields(y, m, d) ==
    IF MatchYear(y) /\ MatchMonth(m) /\ MatchDay(d)
       /\ ValidDate(ParseNat(y), ParseNat(m), DayVal(d))
    THEN DateVal(ParseNat(y), ParseNat(m), DayVal(d))
    ELSE NoneVal

IsoOfFields(f) == IF Len(f) = 3 THEN DateOfFields(f[1], f[2], f[3]) ELSE NoneVal

UsOfFields(f) == IF Len(f) = 3 THEN DateOfFields(f[3], f[1], f[2]) ELSE NoneVal

\* datetime.strptime(s, '%Y-%m-%d').date(), NoneVal where it raises
StrptimeIso(s) == IsoOfFields(Split(s, "-"))

\* datetime.strptime(s, '%m/%d/%Y').date(), NoneVal where it raises
StrptimeUs(s) == UsOfFields(Split(s, "/"))

\* try: return a / except: return b
OrElse(a, b) == IF a # NoneVal THEN a ELSE b

\* _parse_date: a value that is not a str makes strptime raise TypeError, which
\* the bare except clauses swallow like any other error.
ParseDate(v) ==
    IF ~Truthy(v) THEN NoneVal
    ELSE IF v.kind # "str" THEN NoneVal
    ELSE OrElse(StrptimeIso(v.chars), StrptimeUs(v.chars))

\* ------------------------------------------------------------ transactions

Record(f) == [shape |-> "record", fields |-> f]

Mapping(f) == [shape |-> "mapping", fields |-> f]

\* hasattr(txn, a): a dict has none of the attributes date, amount, description
HasAttr(txn, a) == txn.shape = "record" /\ a \in DOMAIN txn.fields

\* isinstance(txn, dict)
IsDict(txn) == txn.shape = "mapping"

\* f"{year}-{month:02d}"
MonthKey(year, month) == IntStr(year) \o <<"-">> \o Pad2(month)

NewMonth == [deposits |-> <<>>, withdrawals |-> <<>>, all_transactions |-> <<>>]

\* One pass of the loop of _process_transactions over txn: "continue", "raise"
\* (an AttributeError leaves the method), or "put" with the month key and amount.
TxnDated(txn, txn_date) ==
    IF ~Truthy(txn_date) THEN [do |-> "continue"]
    ELSE IF ~HasAttr(txn, "amount") /\ ~IsDict(txn) THEN [do |-> "raise"]
    ELSE IF txn_date.kind # "date" THEN [do |-> "raise"]
    ELSE [do |-> "put",
          key |-> MonthKey(txn_date.year, txn_date.month),
          amount |-> IF HasAttr(txn, "amount") THEN txn.fields["amount"]
                     ELSE Get(txn.fields, "amount", 0)]

TxnStep(txn) ==
    IF HasAttr(txn, "date") THEN TxnDated(txn, txn.fields["date"])
    ELSE IF IsDict(txn) THEN TxnDated(txn, ParseDate(Get(txn.fields, "date", StrVal(<<>>))))
    ELSE [do |-> "continue"]

\* The branch with amount >= 0 for amount > 0.
AddToMonthZeroAsDeposit(m, txn, amount) ==
    IF amount >= 0
    THEN [m EXCEPT !.all_transactions = Append(@, txn), !.deposits = Append(@, Abs(amount))]
    ELSE [m EXCEPT !.all_transactions = Append(@, txn), !.withdrawals = Append(@, Abs(amount))]

\* The deposits/withdrawals branch of the loop body.
AddToMonth(m, txn, amount) ==
    IF amount > 0
    THEN [m EXCEPT !.all_transactions = Append(@, txn), !.deposits = Append(@, Abs(amount))]
    ELSE [m EXCEPT !.all_transactions = Append(@, txn), !.withdrawals = Append(@, Abs(amount))]

\* The loop of _process_transactions: the defaultdict after the last transaction.
RECURSIVE GroupByMonth(_, _)
GroupStep(txns, acc, s) ==
    CASE s.do = "continue" -> GroupByMonth(Tail(txns), acc)
      [] s.do = "raise" -> [raised |-> TRUE, monthly |-> acc]
      [] OTHER ->
           GroupByMonth(Tail(txns),
               Put(acc, s.key, AddToMonth(Get(acc, s.key, NewMonth), Head(txns), s.amount)))

GroupByMonth(txns, acc) ==
    IF txns = <<>> THEN [raised |-> FALSE, monthly |-> acc]
    ELSE GroupStep(txns, acc, TxnStep(Head(txns)))

\* MonthlyData(...) as _process_transactions builds it; the other fields keep
\* the dataclass defaults.
MonthOf(month_key, parts, data) ==
    [period |-> month_key,
     year |-> ParseNat(parts[1]),
     month |-> ParseNat(parts[2]),
     beginning_balance |-> 0,
     ending_balance |-> 0,
     total_deposits |-> SumSeq(data.deposits),
     total_withdrawals |-> SumSeq(data.withdrawals),
     deposit_count |-> Len(data.deposits),
     withdrawal_count |-> Len(data.withdrawals),
     net_cash_flow |-> SumSeq(data.deposits) - SumSeq(data.withdrawals),
     avg_deposit |-> IF data.deposits # <<>> THEN Mean(data.deposits) ELSE FZero,
     max_deposit |-> IF data.deposits # <<>> THEN SeqMax(data.deposits) ELSE 0,
     min_deposit |-> IF data.deposits # <<>> THEN SeqMin(data.deposits) ELSE 0,
     average_balance |-> FZero,
     nsf_count |-> 0,
     negative_days |-> 0]

AggregateMonth(month_key, data) == MonthOf(month_key, Split(month_key, "-"), data)

\* The aggregation loop over the grouped months g, or the exception that left
\* the first loop.
Aggregate(g, md) ==
    IF g.raised THEN [raised |-> TRUE, monthly_data |-> md]
    ELSE [raised |-> FALSE,
          monthly_data |-> [k \in (DOMAIN md) \cup (DOMAIN g.monthly) |->
                               IF k \in DOMAIN g.monthly
                               THEN AggregateMonth(k, g.monthly[k])
                               ELSE md[k]]]

\* _process_transactions: the buckets afterwards, or the exception.
ProcessTransactions(txns, md) == Aggregate(GroupByMonth(txns, EmptyDict), md)

\* add_monthly_summary taking the net cash flow from the balances.
SummaryMonthNetOfBalances(month, year, beginning_balance, ending_balance, total_deposits, total_withdrawals, deposit_count) ==
    [period |-> MonthKey(year, month),
     year |-> year,
     month |-> month,
     beginning_balance |-> beginning_balance,
     ending_balance |-> ending_balance,
     total_deposits |-> total_deposits,
     total_withdrawals |-> total_withdrawals,
     deposit_count |-> deposit_count,
     withdrawal_count |-> 0,
     net_cash_flow |-> ending_balance - beginning_balance,
     avg_deposit |-> FZero,
     max_deposit |-> 0,
     min_deposit |-> 0,
     average_balance |-> Frac(beginning_balance + ending_balance, 2),
     nsf_count |-> 0,
     negative_days |-> 0]

\* MonthlyData(...) as add_monthly_summary builds it.
SummaryMonth(month, year, beginning_balance, ending_balance, total_deposits, total_withdrawals, deposit_count) ==
    [period |-> MonthKey(year, month),
     year |-> year,
     month |-> month,
     beginning_balance |-> beginning_balance,
     ending_balance |-> ending_balance,
     total_deposits |-> total_deposits,
     total_withdrawals |-> total_withdrawals,
     deposit_count |-> deposit_count,
     withdrawal_count |-> 0,
     net_cash_flow |-> total_deposits - total_withdrawals,
     avg_deposit |-> FZero,
     max_deposit |-> 0,
     min_deposit |-> 0,
     average_balance |-> Frac(beginning_balance + ending_balance, 2),
     nsf_count |-> 0,
     negative_days |-> 0]


\* ------------------------------------------------------------- arithmetic

RECURSIVE Gcd(_, _)
Gcd(a, b) == IF b = 0 THEN a ELSE Gcd(b, a % b)

DivideBy(f, g) == Frac(f.num \div g, f.den \div g)

\* a fraction in lowest terms
Reduce(f) == DivideBy(f, Gcd(Abs(f.num), f.den))

FAdd(a, b) == Reduce(Frac(a.num * b.den + b.num * a.den, a.den * b.den))

RECURSIVE FSumSeq(_)
FSumSeq(s) == IF s = <<>> THEN FZero ELSE FAdd(Head(s), FSumSeq(Tail(s)))

FDivInt(f, n) == Reduce(Frac(f.num, f.den * n))

\* np.mean of a non-empty list of fractions
FMean(s) == FDivInt(FSumSeq(s), Len(s))

\* f > k and f < k for a fraction f and an integer k
FGt(f, k) == f.num > k * f.den

FLt(f, k) == f.num < k * f.den

\* coef * sqrt(radicand), for a standard deviation
Root(coef, radicand) == [coef |-> coef, radicand |-> radicand]

Squares(s) == [i \in 1..Len(s) |-> s[i] * s[i]]

\* n * sum(x^2) - sum(x)^2: n^2 times the population variance of s
VarNum(s) == Len(s) * SumSeq(Squares(s)) - SumSeq(s) * SumSeq(s)

\* np.std(s)
Std(s) == Root(1, Frac(VarNum(s), Len(s) * Len(s)))

\* sorted(keys)
RECURSIVE SortedKeys(_)
SortedKeys(K) ==
    IF K = {} THEN <<>>
    ELSE LET m == CHOOSE m \in K : \A k \in K \ {m} : StrLess(m, k)
         IN  <<m>> \o SortedKeys(K \ {m})

Reverse(s) == [i \in 1..Len(s) |-> s[Len(s) + 1 - i]]

\* sorted(keys, reverse=True)
SortedKeysDesc(K) == Reverse(SortedKeys(K))

Min(a, b) == IF a < b THEN a ELSE b

\* ---------------------------------------------------------------- analyses
\* Each analysis method is an operator of the fields it reads, giving what it
\* returns or that it raised, and self.analysis afterwards.

Returned(val, an) == [raised |-> FALSE, val |-> val, analysis |-> an]

Raised(an) == [raised |-> TRUE, val |-> EmptyDict, analysis |-> an]

\* self.analysis[key] = result; return result
Store(an, key, result) == Returned(result, Put(an, key, result))

FirstN(s, n) == [i \in 1..Min(n, Len(s)) |-> s[i]]

\* The windows taken from the months sorted oldest first.
TrailingWindowOldestFirst(md, n) == FirstN(SortedKeys(DOMAIN md), n)

\* The keys of the first n months of sorted_months: deposits_3mo, deposits_6mo
\* and deposits_12mo hold their total_deposits.
TrailingWindow(md, n) == FirstN(SortedKeysDesc(DOMAIN md), n)

TotalDeposits(md, keys) == [i \in 1..Len(keys) |-> md[keys[i]].total_deposits]

TrailingDeposits(md, n) == TotalDeposits(md, TrailingWindow(md, n))

\* The trend of calculate_trailing_averages; 1.1 and 0.9 as 11/10 and 9/10.
\* The trend taken against the second newest month.
TrailingTrendAgainstSecond(deposits_3mo) ==
    IF Len(deposits_3mo) >= 3
    THEN IF 10 * deposits_3mo[1] > 11 * deposits_3mo[2] THEN "increasing"
         ELSE IF 10 * deposits_3mo[1] < 9 * deposits_3mo[2] THEN "decreasing"
         ELSE "stable"
    ELSE "stable"

TrailingTrend(deposits_3mo) ==
    IF Len(deposits_3mo) >= 3
    THEN IF 10 * deposits_3mo[1] > 11 * deposits_3mo[Len(deposits_3mo)] THEN "increasing"
         ELSE IF 10 * deposits_3mo[1] < 9 * deposits_3mo[Len(deposits_3mo)] THEN "decreasing"
         ELSE "stable"
    ELSE "stable"

\* The two entries of one window, when it holds a month.
WithWindow(result, avg_key, window_key, deposits) ==
    IF deposits # <<>>
    THEN Put(Put(result, avg_key, Mean(deposits)),
             window_key, [avg_deposits |-> Mean(deposits), months |-> Len(deposits)])
    ELSE result

WithAnnualized(result, deposits_12mo) ==
    IF deposits_12mo # <<>>
    THEN Put(result, "annualized_deposits",
             Frac(Mean(deposits_12mo).num * 12, Mean(deposits_12mo).den))
    ELSE result

TrailingOf(months_available, deposits_3mo, deposits_6mo, deposits_12mo) ==
    WithAnnualized(
        WithWindow(
            WithWindow(
                WithWindow([months_available |-> months_available,
                            trend |-> TrailingTrend(deposits_3mo)],
                           "avg_3_month_deposits", "3_month", deposits_3mo),
                "avg_6_month_deposits", "6_month", deposits_6mo),
            "avg_12_month_deposits", "12_month", deposits_12mo),
        deposits_12mo)

TrailingResult(md) ==
    TrailingOf(Cardinality(DOMAIN md), TrailingDeposits(md, 3), TrailingDeposits(md, 6),
               TrailingDeposits(md, 12))

\* calculate_trailing_averages without its guard on an empty monthly_data.
TrailingAveragesUnguarded(txns, md, an) == Store(an, "trailing_averages", TrailingResult(md))

TrailingAverages(txns, md, an) ==
    IF md = EmptyDict THEN Returned(EmptyDict, an)
    ELSE Store(an, "trailing_averages", TrailingResult(md))

\* mom_changes: one entry per pair whose earlier month has deposits
RECURSIVE MomChanges(_)
MomChanges(deposits) ==
    IF Len(deposits) < 2 THEN <<>>
    ELSE IF deposits[Len(deposits) - 1] > 0
    THEN Append(MomChanges(SubSeq(deposits, 1, Len(deposits) - 1)),
                Reduce(Frac((deposits[Len(deposits)] - deposits[Len(deposits) - 1]) * 100,
                            deposits[Len(deposits) - 1])))
    ELSE MomChanges(SubSeq(deposits, 1, Len(deposits) - 1))

\* cv = std / mean * 100 = 100 * sqrt(VarNum / sum^2), 0 when the mean is 0
Cv(deposits) ==
    IF SumSeq(deposits) > 0
    THEN Root(100, Reduce(Frac(VarNum(deposits), SumSeq(deposits) * SumSeq(deposits))))
    ELSE Root(100, FZero)

TrendDirection(mom_changes, avg_change) ==
    IF mom_changes # <<>>
    THEN IF FGt(avg_change, 5) THEN "increasing"
         ELSE IF FLt(avg_change, -5) THEN "decreasing"
         ELSE "stable"
    ELSE "stable"

\* cv > 30, squared: 100^2 * radicand > 30^2
MonthlyTrendsOf(mom_changes, avg_change, cv) ==
    [trend_direction |-> TrendDirection(mom_changes, avg_change),
     avg_mom_change |-> avg_change,
     volatility_cv |-> cv,
     high_volatility |-> 100 * cv.radicand.num > 9 * cv.radicand.den,
     mom_changes |-> mom_changes]

AvgChange(mom_changes) == IF mom_changes # <<>> THEN FMean(mom_changes) ELSE FZero

MonthlyTrendsOfChanges(mom_changes, cv) ==
    MonthlyTrendsOf(mom_changes, AvgChange(mom_changes), cv)

MonthlyTrendsOfDeposits(deposits) == MonthlyTrendsOfChanges(MomChanges(deposits), Cv(deposits))

MonthlyTrendsResult(md) == MonthlyTrendsOfDeposits(TotalDeposits(md, SortedKeys(DOMAIN md)))

MonthlyTrends(txns, md, an) ==
    IF Cardinality(DOMAIN md) < 2 THEN Returned(EmptyDict, an)
    ELSE Store(an, "monthly_trends", MonthlyTrendsResult(md))

\* The precedence with ACH tested before WIRE.
CategoryAchFirst(desc) ==
    IF Contains(desc, <<"A", "C", "H">>) THEN "ach"
    ELSE IF Contains(desc, <<"W", "I", "R", "E">>) \/ Contains(desc, <<"O", "R", "I", "G", ":">>)
    THEN "wire"
    ELSE IF Contains(desc, <<"C", "A", "S", "H">>) \/ Contains(desc, <<"A", "T", "M">>)
    THEN "cash"
    ELSE IF Contains(desc, <<"C", "A", "R", "D">>)
            \/ Contains(desc, <<"M", "E", "R", "C", "H", "A", "N", "T">>)
    THEN "card"
    ELSE "other"

\* The precedence of categorize_deposits over the upper-cased description.
Category(desc) ==
    IF Contains(desc, <<"W", "I", "R", "E">>) \/ Contains(desc, <<"O", "R", "I", "G", ":">>)
    THEN "wire"
    ELSE IF Contains(desc, <<"A", "C", "H">>) THEN "ach"
    ELSE IF Contains(desc, <<"C", "A", "S", "H">>) \/ Contains(desc, <<"A", "T", "M">>)
    THEN "cash"
    ELSE IF Contains(desc, <<"C", "A", "R", "D">>)
            \/ Contains(desc, <<"M", "E", "R", "C", "H", "A", "N", "T">>)
    THEN "card"
    ELSE "other"

CategoryNames == {"ach", "wire", "cash", "card", "other"}

NewCategories ==
    [ach |-> [total |-> 0, count |-> 0, pct_of_total |-> FZero],
     wire |-> [total |-> 0, count |-> 0, pct_of_total |-> FZero],
     cash |-> [total |-> 0, count |-> 0, pct_of_total |-> FZero],
     card |-> [total |-> 0, count |-> 0, pct_of_total |-> FZero],
     other |-> [total |-> 0, count |-> 0, pct_of_total |-> FZero],
     total_categorized |-> 0]

\* The amount and description categorize_deposits reads from txn; an object
\* without amount is asked for .get, which raises AttributeError.
CategorizeRead(txn) ==
    IF HasAttr(txn, "amount")
    THEN [raised |-> FALSE, amount |-> txn.fields["amount"],
          desc |-> IF HasAttr(txn, "description") THEN Upper(txn.fields["description"]) ELSE <<>>]
    ELSE IF IsDict(txn)
    THEN [raised |-> FALSE, amount |-> Get(txn.fields, "amount", 0),
          desc |-> Upper(Get(txn.fields, "description", <<>>))]
    ELSE [raised |-> TRUE, amount |-> 0, desc |-> <<>>]

\* The three += of the loop body.
AddToCategory(categories, cat, amount) ==
    [categories EXCEPT ![cat].total = @ + amount,
                       ![cat].count = @ + 1,
                       !.total_categorized = @ + amount]

RECURSIVE CategorizeLoop(_, _)
CategorizeStep(txns, categories, r) ==
    IF r.raised THEN [raised |-> TRUE, categories |-> categories]
    ELSE IF r.amount <= 0 THEN CategorizeLoop(Tail(txns), categories)
    ELSE CategorizeLoop(Tail(txns), AddToCategory(categories, Category(r.desc), r.amount))

CategorizeLoop(txns, categories) ==
    IF txns = <<>> THEN [raised |-> FALSE, categories |-> categories]
    ELSE CategorizeStep(txns, categories, CategorizeRead(Head(txns)))

\* The percentages pass.
WithPercentages(categories) ==
    IF categories.total_categorized > 0
    THEN [c \in DOMAIN categories |->
             IF c = "total_categorized" THEN categories.total_categorized
             ELSE [categories[c] EXCEPT
                      !.pct_of_total = Reduce(Frac(categories[c].total * 100,
                                                   categories.total_categorized))]]
    ELSE categories

CategorizeAfter(loop, an) ==
    IF loop.raised THEN Raised(an)
    ELSE Store(an, "deposit_categories", WithPercentages(loop.categories))

\* categorize_deposits adding to the categories of the call before.
CategorizeDepositsAccumulating(txns, md, an) ==
    CategorizeAfter(CategorizeLoop(txns, Get(an, "deposit_categories", NewCategories)), an)

CategorizeDeposits(txns, md, an) == CategorizeAfter(CategorizeLoop(txns, NewCategories), an)

\* Whether analyze_large_deposits takes t, and the amount it takes.
IsDeposit(t) ==
    \/ HasAttr(t, "amount") /\ t.fields["amount"] > 0
    \/ IsDict(t) /\ Get(t.fields, "amount", 0) > 0

DepositAmount(t) == IF HasAttr(t, "amount") THEN t.fields["amount"] ELSE Get(t.fields, "amount", 0)

\* deposits of analyze_large_deposits
RECURSIVE PositiveAmounts(_)
PositiveAmounts(txns) ==
    IF txns = <<>> THEN <<>>
    ELSE IF IsDeposit(Head(txns)) THEN <<DepositAmount(Head(txns))>> \o PositiveAmounts(Tail(txns))
    ELSE PositiveAmounts(Tail(txns))

\* lhs > 2 * sqrt(var_num)
ExceedsTwoRoots(lhs, var_num) == lhs > 0 /\ lhs * lhs > 4 * var_num

\* d > mean + 2 * std, with n = len(deposits): n*d - sum > 2 * sqrt(VarNum)
AboveThreshold(d, deposits) ==
    ExceedsTwoRoots(Len(deposits) * d - SumSeq(deposits), VarNum(deposits))

LargeOf(deposits, large_deposits) ==
    [threshold |-> [mean |-> Mean(deposits), plus |-> Root(2, Std(deposits).radicand)],
     count |-> Len(large_deposits),
     total |-> SumSeq(large_deposits),
     pct_from_large |-> IF SumSeq(deposits) > 0
                        THEN Reduce(Frac(SumSeq(large_deposits) * 100, SumSeq(deposits)))
                        ELSE FZero,
     largest |-> SeqMax(deposits),
     mean |-> Mean(deposits),
     std |-> Std(deposits)]

LargeDepositsResult(deposits) ==
    LargeOf(deposits, SelectSeq(deposits, LAMBDA d : AboveThreshold(d, deposits)))

LargeDepositsOf(deposits, an) ==
    IF deposits = <<>> THEN Returned(EmptyDict, an)
    ELSE Store(an, "large_deposits", LargeDepositsResult(deposits))

LargeDeposits(txns, md, an) == LargeDepositsOf(PositiveAmounts(txns), an)

EndingBalances(md, keys) == [i \in 1..Len(keys) |-> md[keys[i]].ending_balance]

\* balances of analyze_balance_trends: the positive ending balances, oldest first
PositiveEndingBalances(md) ==
    SelectSeq(EndingBalances(md, SortedKeys(DOMAIN md)), LAMBDA b : b > 0)

BalanceTrend(balance_change_pct) ==
    IF FGt(balance_change_pct, 10) THEN "increasing"
    ELSE IF FLt(balance_change_pct, -10) THEN "decreasing"
    ELSE "stable"

BalanceChangePct(balance_change, first_balance) ==
    IF first_balance > 0 THEN Reduce(Frac(balance_change * 100, first_balance)) ELSE FZero

BalanceOf(balances, balance_change, balance_change_pct) ==
    [average_balance |-> Mean(balances),
     min_balance |-> SeqMin(balances),
     max_balance |-> SeqMax(balances),
     balance_change |-> balance_change,
     balance_change_pct |-> balance_change_pct,
     balance_trend |-> BalanceTrend(balance_change_pct)]

BalanceTrendsResult(balances) ==
    BalanceOf(balances, balances[Len(balances)] - balances[1],
              BalanceChangePct(balances[Len(balances)] - balances[1], balances[1]))

\* analyze_balance_trends taking the average from calculate_average_daily_balance's
\* entry when there is one.
BalanceTrendsReusingAverage(balances, an) ==
    IF balances = <<>> THEN Returned(EmptyDict, an)
    ELSE Store(an, "balance_trends",
               IF "average_daily_balance" \in DOMAIN an
               THEN [BalanceTrendsResult(balances) EXCEPT
                        !.average_balance = an["average_daily_balance"].average_daily_balance]
               ELSE BalanceTrendsResult(balances))

BalanceTrendsOf(balances, an) ==
    IF balances = <<>> THEN Returned(EmptyDict, an)
    ELSE Store(an, "balance_trends", BalanceTrendsResult(balances))

BalanceTrends(txns, md, an) ==
    IF md = EmptyDict THEN Returned(EmptyDict, an)
    ELSE BalanceTrendsOf(PositiveEndingBalances(md), an)

nsf_keywords ==
    << <<"N", "S", "F">>,
       <<"I", "N", "S", "U", "F", "F", "I", "C", "I", "E", "N", "T">>,
       <<"O", "V", "E", "R", "D", "R", "A", "F", "T">>,
       <<"O", "D", " ", "F", "E", "E">>,
       <<"R", "E", "T", "U", "R", "N", "E", "D", " ", "I", "T", "E", "M">> >>

\* The description and amount check_nsf_overdraft reads from txn: with a
\* description attribute it reads .amount, without one it calls .get; either
\* raises AttributeError on an object that lacks what is asked.
NsfRead(txn) ==
    IF HasAttr(txn, "description")
    THEN IF HasAttr(txn, "amount")
         THEN [raised |-> FALSE, desc |-> Upper(txn.fields["description"]),
               amount |-> txn.fields["amount"]]
         ELSE [raised |-> TRUE, desc |-> <<>>, amount |-> 0]
    ELSE IF IsDict(txn)
    THEN [raised |-> FALSE, desc |-> Upper(Get(txn.fields, "description", <<>>)),
          amount |-> Get(txn.fields, "amount", 0)]
    ELSE [raised |-> TRUE, desc |-> <<>>, amount |-> 0]

\* The keyword loop: whether any keyword is in desc.
IsNsf(desc) == \E i \in 1..Len(nsf_keywords) : Contains(desc, nsf_keywords[i])

RECURSIVE NsfLoop(_, _)
NsfStep(txns, acc, r) ==
    IF r.raised THEN [acc EXCEPT !.raised = TRUE]
    ELSE IF IsNsf(r.desc)
    THEN NsfLoop(Tail(txns), [acc EXCEPT !.nsf_count = @ + 1, !.nsf_total = @ + Abs(r.amount)])
    ELSE NsfLoop(Tail(txns), acc)

NsfLoop(txns, acc) == IF txns = <<>> THEN acc ELSE NsfStep(txns, acc, NsfRead(Head(txns)))

NsfSeverity(nsf_count) ==
    IF nsf_count > 5 THEN "HIGH" ELSE IF nsf_count > 0 THEN "MODERATE" ELSE "NONE"

NsfAfter(loop, an) ==
    IF loop.raised THEN Raised(an)
    ELSE Store(an, "nsf_overdraft",
               [nsf_count |-> loop.nsf_count,
                nsf_total_fees |-> loop.nsf_total,
                severity |-> NsfSeverity(loop.nsf_count)])

NsfOverdraft(txns, md, an) ==
    NsfAfter(NsfLoop(txns, [raised |-> FALSE, nsf_count |-> 0, nsf_total |-> 0]), an)

AverageBalances(md, keys) == [i \in 1..Len(keys) |-> md[keys[i]].average_balance]

\* monthly_avgs of calculate_average_daily_balance
PositiveAverageBalances(md) ==
    SelectSeq(AverageBalances(md, SortedKeys(DOMAIN md)), LAMBDA b : FGt(b, 0))

AverageDailyBalanceOf(monthly_avgs, an) ==
    IF monthly_avgs = <<>> THEN Returned(EmptyDict, an)
    ELSE Store(an, "average_daily_balance",
               [average_daily_balance |-> FMean(monthly_avgs),
                months_included |-> Len(monthly_avgs)])

AverageDailyBalance(txns, md, an) ==
    IF md = EmptyDict THEN Returned(EmptyDict, an)
    ELSE AverageDailyBalanceOf(PositiveAverageBalances(md), an)

\* ------------------------------------------------------------- the report

\* The analysis methods, in the order generate_underwriting_summary calls them.
RunOrder ==
    <<"calculate_trailing_averages", "calculate_monthly_trends", "categorize_deposits",
      "analyze_large_deposits", "analyze_balance_trends", "check_nsf_overdraft",
      "calculate_average_daily_balance">>

Methods == {RunOrder[i] : i \in 1..Len(RunOrder)}

\* The key of self.analysis each method writes.
AnalysisKey(name) ==
    CASE name = "calculate_trailing_averages" -> "trailing_averages"
      [] name = "calculate_monthly_trends" -> "monthly_trends"
      [] name = "categorize_deposits" -> "deposit_categories"
      [] name = "analyze_large_deposits" -> "large_deposits"
      [] name = "analyze_balance_trends" -> "balance_trends"
      [] name = "check_nsf_overdraft" -> "nsf_overdraft"
      [] name = "calculate_average_daily_balance" -> "average_daily_balance"

Method(name, txns, md, an) ==
    CASE name = "calculate_trailing_averages" -> TrailingAverages(txns, md, an)
      [] name = "calculate_monthly_trends" -> MonthlyTrends(txns, md, an)
      [] name = "categorize_deposits" -> CategorizeDeposits(txns, md, an)
      [] name = "analyze_large_deposits" -> LargeDeposits(txns, md, an)
      [] name = "analyze_balance_trends" -> BalanceTrends(txns, md, an)
      [] name = "check_nsf_overdraft" -> NsfOverdraft(txns, md, an)
      [] name = "calculate_average_daily_balance" -> AverageDailyBalance(txns, md, an)

\* The calls named in order, one after the other, up to the first that raises:
\* done holds the calls that returned.
RECURSIVE RunAll(_, _, _, _)
RunNext(order, txns, md, r, done) ==
    IF r.raised THEN [raised |-> TRUE, analysis |-> r.analysis, done |-> done]
    ELSE RunAll(Tail(order), txns, md, [analysis |-> r.analysis, done |-> done \cup {Head(order)}])

RunAll(order, txns, md, acc) ==
    IF order = <<>> THEN [raised |-> FALSE, analysis |-> acc.analysis, done |-> acc.done]
    ELSE RunNext(order, txns, md, Method(Head(order), txns, md, acc.analysis), acc.done)

\* The NSF branch with the red flag from five items on.
NsfFlagsHighAtFive(nsf) ==
    IF Get(nsf, "nsf_count", 0) >= 5
    THEN << <<[msg |-> "High NSF activity", items |-> nsf["nsf_count"]]>>, <<>> >>
    ELSE IF Get(nsf, "nsf_count", 0) > 0
    THEN << <<>>, <<[msg |-> "NSF activity present", items |-> nsf["nsf_count"]]>> >>
    ELSE << <<>>, <<>> >>

\* The NSF branch: <<red_flags, flags>> afterwards. A message is the text of
\* its f-string with the value it formats.
NsfFlags(nsf) ==
    IF Get(nsf, "nsf_count", 0) > 5
    THEN << <<[msg |-> "High NSF activity", items |-> nsf["nsf_count"]]>>, <<>> >>
    ELSE IF Get(nsf, "nsf_count", 0) > 0
    THEN << <<>>, <<[msg |-> "NSF activity present", items |-> nsf["nsf_count"]]>> >>
    ELSE << <<>>, <<>> >>

TrendFlags(trends) ==
    (IF "trend_direction" \in DOMAIN trends /\ trends["trend_direction"] = "decreasing"
     THEN <<[msg |-> "Declining deposit trend"]>> ELSE <<>>)
    \o (IF Get(trends, "high_volatility", FALSE)
        THEN <<[msg |-> "High deposit volatility", cv |-> Get(trends, "volatility_cv", 0)]>>
        ELSE <<>>)

LargeFlags(large) ==
    IF FGt(Get(large, "pct_from_large", FZero), 30)
    THEN <<[msg |-> "High concentration in large deposits", pct |-> large["pct_from_large"]]>>
    ELSE <<>>

\* The balance branch: <<red_flags, flags>> it appends.
BalanceFlags(bal) ==
    IF FLt(Get(bal, "balance_change_pct", FZero), -20)
    THEN << <<>>, <<[msg |-> "Declining balance trend", pct |-> bal["balance_change_pct"]]>> >>
    ELSE << <<>>, <<>> >>

SummaryOf(an, red_flags, flags) ==
    [trailing_averages |-> Get(an, "trailing_averages", EmptyDict),
     monthly_trends |-> Get(an, "monthly_trends", EmptyDict),
     deposit_categories |-> Get(an, "deposit_categories", EmptyDict),
     large_deposits |-> Get(an, "large_deposits", EmptyDict),
     balance_trends |-> Get(an, "balance_trends", EmptyDict),
     nsf_overdraft |-> Get(an, "nsf_overdraft", EmptyDict),
     average_daily_balance |-> Get(an, "average_daily_balance", EmptyDict),
     red_flags |-> red_flags,
     warnings |-> flags,
     flag_count |-> Len(flags) + Len(red_flags)]

CompileFlags(an, nsf, trend, large, bal) ==
    SummaryOf(an, nsf[1] \o bal[1], nsf[2] \o trend \o large \o bal[2])

\* The summary dict built from self.analysis once the analyses have run.
Summary(an) ==
    CompileFlags(an,
                 NsfFlags(Get(an, "nsf_overdraft", EmptyDict)),
                 TrendFlags(Get(an, "monthly_trends", EmptyDict)),
                 LargeFlags(Get(an, "large_deposits", EmptyDict)),
                 BalanceFlags(Get(an, "balance_trends", EmptyDict)))

SummaryAfter(run) ==
    IF run.raised
    THEN [raised |-> TRUE, val |-> EmptyDict, analysis |-> run.analysis, done |-> run.done]
    ELSE [raised |-> FALSE, val |-> Summary(run.analysis), analysis |-> run.analysis,
          done |-> run.done]

UnderwritingSummary(txns, md, an) ==
    SummaryAfter(RunAll(RunOrder, txns, md, [analysis |-> an, done |-> {}]))

\* CashFlowSummary(...) with 0 given to get() for the trailing averages too.
CashFlowSummaryZeroDefaults(summary, trailing, nsf, adb_data) ==
    [period_start |-> NoneVal,
     period_end |-> NoneVal,
     true_revenue_90d |-> FZero,
     monthly_true_revenue |-> Get(trailing, "avg_3_month_deposits", FZero),
     total_deposits_90d |-> FZero,
     total_withdrawals_90d |-> FZero,
     average_daily_balance |-> Get(adb_data, "average_daily_balance", FZero),
     nsf_count |-> Get(nsf, "nsf_count", 0),
     negative_days |-> 0,
     mca_payment_total |-> FZero,
     deposit_consistency |-> FZero,
     cash_flow_margin |-> FZero,
     trailing_3mo_avg |-> Get(trailing, "avg_3_month_deposits", FZero),
     trailing_6mo_avg |-> Get(trailing, "avg_6_month_deposits", FZero),
     trailing_12mo_avg |-> Get(trailing, "avg_12_month_deposits", FZero),
     trend |-> Get(trailing, "trend", "stable"),
     red_flags |-> Get(summary, "red_flags", <<>>),
     warnings |-> Get(summary, "warnings", <<>>)]

\* CashFlowSummary(...) as to_cash_flow_summary builds it: a field given no
\* argument keeps the default of the dataclass, and get() without a default
\* gives None for a key that is not there.
CashFlowSummaryOf(summary, trailing, nsf, adb_data) ==
    [period_start |-> NoneVal,
     period_end |-> NoneVal,
     true_revenue_90d |-> FZero,
     monthly_true_revenue |-> Get(trailing, "avg_3_month_deposits", FZero),
     total_deposits_90d |-> FZero,
     total_withdrawals_90d |-> FZero,
     average_daily_balance |-> Get(adb_data, "average_daily_balance", FZero),
     nsf_count |-> Get(nsf, "nsf_count", 0),
     negative_days |-> 0,
     mca_payment_total |-> FZero,
     deposit_consistency |-> FZero,
     cash_flow_margin |-> FZero,
     trailing_3mo_avg |-> Get(trailing, "avg_3_month_deposits", NoneVal),
     trailing_6mo_avg |-> Get(trailing, "avg_6_month_deposits", NoneVal),
     trailing_12mo_avg |-> Get(trailing, "avg_12_month_deposits", NoneVal),
     trend |-> Get(trailing, "trend", "stable"),
     red_flags |-> Get(summary, "red_flags", <<>>),
     warnings |-> Get(summary, "warnings", <<>>)]

CashFlowSummaryAfter(r) ==
    IF r.raised THEN r
    ELSE [r EXCEPT !.val = CashFlowSummaryOf(r.val,
                                             Get(r.val, "trailing_averages", EmptyDict),
                                             Get(r.val, "nsf_overdraft", EmptyDict),
                                             Get(r.val, "average_daily_balance", EmptyDict))]

ToCashFlowSummary(txns, md, an) == CashFlowSummaryAfter(UnderwritingSummary(txns, md, an))

\* -------------------------------------------------------------- the inputs

Iso20240105 == StrVal(<<"2", "0", "2", "4", "-", "0", "1", "-", "0", "5">>)
Us02102024 == StrVal(<<"0", "2", "/", "1", "0", "/", "2", "0", "2", "4">>)
Iso20240230 == StrVal(<<"2", "0", "2", "4", "-", "0", "2", "-", "3", "0">>)
Jan5 == StrVal(<<"J", "a", "n", " ", "5">>)

AchDeposit == <<"A", "C", "H", " ", "d", "e", "p", "o", "s", "i", "t">>
NsfFee == <<"N", "S", "F", " ", "F", "E", "E">>
WireAch == <<"w", "i", "r", "e", " ", "a", "c", "h">>
AtmCard == <<"A", "T", "M", " ", "C", "A", "R", "D">>
Merchant == <<"m", "e", "r", "c", "h", "a", "n", "t">>
Rent == <<"r", "e", "n", "t">>

Txn(shape, date, amount, description) ==
    [shape |-> shape,
     fields |-> [date |-> date, amount |-> amount, description |-> description]]

\* Transactions of both shapes, with every form of date, amounts of each sign
\* and descriptions of each category.
TxnPool ==
    { Txn("mapping", Iso20240105, 50, AchDeposit),
      Txn("mapping", Iso20240105, -20, NsfFee),
      Txn("mapping", Us02102024, 30, WireAch),
      Txn("mapping", Us02102024, 0, Rent),
      Txn("mapping", Jan5, 40, Merchant),
      Txn("mapping", Iso20240230, 40, AtmCard),
      Txn("mapping", NoneVal, 15, Rent),
      Txn("mapping", DateVal(2024, 1, 5), 35, Rent),
      Txn("record", DateVal(2024, 1, 5), 45, AtmCard),
      Txn("record", DateVal(2023, 12, 31), -5, NsfFee),
      Txn("record", NoneVal, 70, Rent),
      Txn("record", Jan5, 10, Rent),
      Txn("record", Iso20240105, 10, Rent),
      Mapping([amount |-> 60, description |-> Merchant]),
      Mapping([date |-> Iso20240105]),
      Record([amount |-> 25, description |-> Rent]),
      Record([date |-> DateVal(2024, 2, 10), amount |-> 55]) }

RECURSIVE SeqsUpTo(_, _)
SeqsUpTo(pool, n) ==
    IF n = 0 THEN {<<>>}
    ELSE {<<>>} \cup {Append(s, t) : s \in SeqsUpTo(pool, n - 1), t \in pool}

\* The lists given to load_transactions on a fresh analyzer.
TxnLists == SeqsUpTo(TxnPool, MaxTxns)

Repeat(t, n) == [i \in 1..n |-> t]

\* The lists given to load_transactions in a longer life of the analyzer.
LoadChoices ==
    { <<>>,
      <<Txn("mapping", Iso20240105, 50, AchDeposit), Txn("mapping", Iso20240105, -20, NsfFee)>>,
      <<Txn("record", DateVal(2024, 2, 10), 30, WireAch), Txn("record", DateVal(2023, 12, 31), 0, Rent),
        Txn("record", DateVal(2024, 2, 11), 90, AtmCard)>>,
      Repeat(Txn("mapping", Us02102024, -5, NsfFee), 5),
      Repeat(Txn("mapping", Us02102024, -5, NsfFee), 6),
      <<Txn("record", Iso20240105, 10, Rent)>> }

\* The arguments given to add_monthly_summary: month, year, beginning_balance,
\* ending_balance, total_deposits, total_withdrawals, deposit_count.
SummaryChoices ==
    { <<1, 2024, 100, 100, 60, 40, 3>>,
      <<2, 2024, 100, 70, 90, 95, 2>>,
      <<2, 2024, 0, 0, 0, 0, 0>>,
      <<3, 2024, 80, 120, 40, 10, 1>> }

\* ------------------------------------------------------------------ actions

Init ==
    /\ transactions = <<>>
    /\ monthly_data = EmptyDict
    /\ analysis = EmptyDict
    /\ last = [op |-> "__init__", raised |-> FALSE, fresh |-> TRUE, again |-> FALSE,
               val |-> EmptyDict]
    /\ ran = {}
    /\ base = EmptyDict
    /\ nSteps = 0

\* What a call that changes the inputs leaves behind.
Loaded(name, txns, md, raised) ==
    /\ transactions' = txns
    /\ monthly_data' = md
    /\ last' = [op |-> name, raised |-> raised, fresh |-> (monthly_data = EmptyDict),
                again |-> FALSE, val |-> EmptyDict]
    /\ ran' = {}
    /\ base' = analysis
    /\ nSteps' = nSteps + 1
    /\ UNCHANGED analysis

LoadedFrom(txns, p) == Loaded("load_transactions", txns, p.monthly_data, p.raised)

load_transactions(txns) == LoadedFrom(txns, ProcessTransactions(txns, monthly_data))

add_monthly_summary(month, year, beginning_balance, ending_balance, total_deposits, total_withdrawals, deposit_count) ==
    Loaded("add_monthly_summary", transactions,
           Put(monthly_data, MonthKey(year, month),
               SummaryMonth(month, year, beginning_balance, ending_balance,
                            total_deposits, total_withdrawals, deposit_count)),
           FALSE)

\* What a call of an analysis method or of the report leaves behind.
Call(name, r, done) ==
    /\ analysis' = r.analysis
    /\ last' = [op |-> name, raised |-> r.raised, fresh |-> FALSE, again |-> (last.op = name),
                val |-> r.val]
    /\ ran' = ran \cup done
    /\ nSteps' = nSteps + 1
    /\ UNCHANGED <<transactions, monthly_data, base>>

CallMethod(name, r) == Call(name, r, IF r.raised THEN {} ELSE {name})

calculate_trailing_averages ==
    CallMethod("calculate_trailing_averages",
               TrailingAverages(transactions, monthly_data, analysis))

calculate_monthly_trends ==
    CallMethod("calculate_monthly_trends", MonthlyTrends(transactions, monthly_data, analysis))

categorize_deposits ==
    CallMethod("categorize_deposits", CategorizeDeposits(transactions, monthly_data, analysis))

analyze_large_deposits ==
    CallMethod("analyze_large_deposits", LargeDeposits(transactions, monthly_data, analysis))

analyze_balance_trends ==
    CallMethod("analyze_balance_trends", BalanceTrends(transactions, monthly_data, analysis))

check_nsf_overdraft ==
    CallMethod("check_nsf_overdraft", NsfOverdraft(transactions, monthly_data, analysis))

calculate_average_daily_balance ==
    CallMethod("calculate_average_daily_balance",
               AverageDailyBalance(transactions, monthly_data, analysis))

ReportCall(r) == Call("generate_underwriting_summary", r, r.done)

generate_underwriting_summary ==
    ReportCall(UnderwritingSummary(transactions, monthly_data, analysis))

ConversionCall(r) == Call("to_cash_flow_summary", r, r.done)

to_cash_flow_summary == ConversionCall(ToCashFlowSummary(transactions, monthly_data, analysis))

\* One analyzer through a life of at most MaxSteps calls.
Within == nSteps < MaxSteps

Next ==
    \/ Within /\ \E txns \in LoadChoices : load_transactions(txns)
    \/ Within /\ \E s \in SummaryChoices :
                    add_monthly_summary(s[1], s[2], s[3], s[4], s[5], s[6], s[7])
    \/ Within /\ calculate_trailing_averages
    \/ Within /\ calculate_monthly_trends
    \/ Within /\ categorize_deposits
    \/ Within /\ analyze_large_deposits
    \/ Within /\ analyze_balance_trends
    \/ Within /\ check_nsf_overdraft
    \/ Within /\ calculate_average_daily_balance
    \/ Within /\ generate_underwriting_summary
    \/ Within /\ to_cash_flow_summary

Spec == Init /\ [][Next]_vars

\* A fresh analyzer given one list, then asked for the analyses of transactions.
NextLoad ==
    \/ last.op = "__init__" /\ \E txns \in TxnLists : load_transactions(txns)
    \/ last.op # "__init__" /\ Within /\ categorize_deposits
    \/ last.op # "__init__" /\ Within /\ analyze_large_deposits
    \/ last.op # "__init__" /\ Within /\ check_nsf_overdraft

SpecLoad == Init /\ [][NextLoad]_vars

\* An analyzer whose inputs are set, with the results of earlier inputs or none
\* in self.analysis, asked for each analysis once, in any order.
OrderInputs ==
    { [txns |-> txns, md |-> ProcessTransactions(txns, EmptyDict).monthly_data] :
        txns \in LoadChoices }
    \cup
    { [txns |-> txns,
       md |-> Put(ProcessTransactions(txns, EmptyDict).monthly_data, MonthKey(s[2], s[1]),
                  SummaryMonth(s[1], s[2], s[3], s[4], s[5], s[6], s[7]))] :
        txns \in LoadChoices, s \in SummaryChoices }

\* self.analysis after a report on other inputs.
EarlierAnalysis ==
    UnderwritingSummary(<<Txn("mapping", Iso20240105, 75, Merchant)>>,
                        Put(Put(EmptyDict, MonthKey(2023, 11),
                                SummaryMonth(11, 2023, 50, 60, 20, 10, 1)),
                            MonthKey(2023, 12), SummaryMonth(12, 2023, 60, 40, 80, 10, 1)),
                        EmptyDict).analysis

InitOrder ==
    /\ \E c \in OrderInputs : transactions = c.txns /\ monthly_data = c.md
    /\ analysis \in {EmptyDict, EarlierAnalysis}
    /\ base = analysis
    /\ last = [op |-> "load_transactions", raised |-> FALSE, fresh |-> TRUE, again |-> FALSE,
               val |-> EmptyDict]
    /\ ran = {}
    /\ nSteps = 0

NotYet(name) == name \notin ran /\ ~(last.op = name /\ last.raised)

NextOrder ==
    \/ NotYet("calculate_trailing_averages") /\ calculate_trailing_averages
    \/ NotYet("calculate_monthly_trends") /\ calculate_monthly_trends
    \/ NotYet("categorize_deposits") /\ categorize_deposits
    \/ NotYet("analyze_large_deposits") /\ analyze_large_deposits
    \/ NotYet("analyze_balance_trends") /\ analyze_balance_trends
    \/ NotYet("check_nsf_overdraft") /\ check_nsf_overdraft
    \/ NotYet("calculate_average_daily_balance") /\ calculate_average_daily_balance

SpecOrder == InitOrder /\ [][NextOrder]_vars

\* The months add_monthly_summary is given where the windows are checked, as
\* <<month, year>>: any of six scattered months, one of them of a year of three
\* digits, and the first months of a run of eight.
ScatteredMonths == {<<12, 999>>, <<1, 2023>>, <<11, 2023>>, <<2, 2024>>, <<9, 2024>>, <<10, 2024>>}

RunOfMonths ==
    <<<<3, 2023>>, <<4, 2023>>, <<5, 2023>>, <<6, 2023>>, <<12, 2023>>, <<1, 2024>>, <<3, 2024>>,
      <<4, 2024>>>>

WindowMonthSets ==
    { A \cup {RunOfMonths[i] : i \in 1..n} : A \in SUBSET ScatteredMonths, n \in 0..Len(RunOfMonths) }

\* monthly_data after add_monthly_summary for each month of K.
SummariesOf(K) ==
    [k \in { MonthKey(ym[2], ym[1]) : ym \in K } |->
        LET ym == CHOOSE ym \in K : MonthKey(ym[2], ym[1]) = k
        IN  SummaryMonth(ym[1], ym[2], 0, 0, 1000 * (ym[2] % 10) + 100 * ym[1], 0, 0)]

InitWindows ==
    /\ transactions = <<>>
    /\ \E K \in WindowMonthSets : Cardinality(K) <= MaxBuckets /\ monthly_data = SummariesOf(K)
    /\ analysis = EmptyDict
    /\ last = [op |-> "add_monthly_summary", raised |-> FALSE, fresh |-> FALSE, again |-> FALSE,
               val |-> EmptyDict]
    /\ ran = {}
    /\ base = EmptyDict
    /\ nSteps = 0

NextWindows == nSteps = 0 /\ calculate_trailing_averages

SpecWindows == InitWindows /\ [][NextWindows]_vars

\* The total_deposits add_monthly_summary is given where the trend is checked,
\* for the months of 2024 from January on, oldest first.
TrendDeposits == {0, 7200, 8000, 8800, 9000, 10000}

TrendInputs == UNION { [1..n -> TrendDeposits] : n \in 0..MaxTrendMonths }

\* monthly_data after add_monthly_summary for each month of d.
TrendSummaries(d) ==
    [k \in { MonthKey(2024, i) : i \in 1..Len(d) } |->
        LET i == CHOOSE i \in 1..Len(d) : MonthKey(2024, i) = k
        IN  SummaryMonth(i, 2024, 0, 0, d[i], 0, 0)]

InitTrend ==
    /\ transactions = <<>>
    /\ \E d \in TrendInputs : monthly_data = TrendSummaries(d)
    /\ analysis = EmptyDict
    /\ last = [op |-> "add_monthly_summary", raised |-> FALSE, fresh |-> FALSE, again |-> FALSE,
               val |-> EmptyDict]
    /\ ran = {}
    /\ base = EmptyDict
    /\ nSteps = 0

NextTrend == nSteps = 0 /\ calculate_trailing_averages

SpecTrend == InitTrend /\ [][NextTrend]_vars

\* ------------------------------------------------------------------ properties
Range(s) == { s[i] : i \in 1..Len(s) }

\* The sum of f over the index set I.
RECURSIVE SumOver(_, _)
SumOver(I, f) ==
    IF I = {} THEN 0
    ELSE LET i == CHOOSE i \in I : TRUE IN f[i] + SumOver(I \ {i}, f)

\* What a transaction carries, read off the object itself.
TxnAmount(t) == IF "amount" \in DOMAIN t.fields THEN t.fields["amount"] ELSE 0

TxnDescription(t) == IF "description" \in DOMAIN t.fields THEN t.fields["description"] ELSE <<>>

TxnDateField(t) == IF "date" \in DOMAIN t.fields THEN t.fields["date"] ELSE NoneVal

\* A record carrying a date object or none, a mapping carrying a date string or
\* none.
Supported(t) ==
    \/ t.shape = "record" /\ TxnDateField(t).kind \in {"date", "none"}
    \/ t.shape = "mapping" /\ TxnDateField(t).kind \in {"str", "none"}

\* The calendar day a supported transaction is dated, NoneVal when it has none.
TxnDate(t) ==
    IF TxnDateField(t).kind = "date" THEN TxnDateField(t)
    ELSE IF TxnDateField(t).kind = "str"
    THEN (IF StrptimeIso(TxnDateField(t).chars) # NoneVal THEN StrptimeIso(TxnDateField(t).chars)
          ELSE StrptimeUs(TxnDateField(t).chars))
    ELSE NoneVal

Dated(txns) == { i \in 1..Len(txns) : TxnDate(txns[i]) # NoneVal }

InMonth(txns, year, month) ==
    { i \in Dated(txns) : TxnDate(txns[i]).year = year /\ TxnDate(txns[i]).month = month }

Amounts(txns) == [i \in 1..Len(txns) |-> TxnAmount(txns[i])]

Magnitudes(txns) == [i \in 1..Len(txns) |-> Abs(TxnAmount(txns[i]))]

\* Bucket m holds exactly the transactions of txns dated in its month: the
\* positive amounts as deposits, the others, zero included, as withdrawals.
BucketOf(m, txns, I) ==
    /\ I # {}
    /\ m.period = MonthKey(m.year, m.month)
    /\ m.deposit_count = Cardinality({ i \in I : TxnAmount(txns[i]) > 0 })
    /\ m.total_deposits = SumOver({ i \in I : TxnAmount(txns[i]) > 0 }, Amounts(txns))
    /\ m.withdrawal_count = Cardinality({ i \in I : TxnAmount(txns[i]) <= 0 })
    /\ m.total_withdrawals = SumOver({ i \in I : TxnAmount(txns[i]) <= 0 }, Magnitudes(txns))

Partitioned(md, txns) ==
    /\ \A i \in Dated(txns) :
          Cardinality({ k \in DOMAIN md : /\ md[k].year = TxnDate(txns[i]).year
                                          /\ md[k].month = TxnDate(txns[i]).month }) = 1
    /\ \A k \in DOMAIN md : /\ md[k].period = k
                            /\ BucketOf(md[k], txns, InMonth(txns, md[k].year, md[k].month))

\* C1: every bucket of monthly_data, whether aggregated from transactions or
\* given by add_monthly_summary, has net_cash_flow equal to total_deposits
\* minus total_withdrawals.
C1_NetCashFlow ==
    \A k \in DOMAIN monthly_data :
        monthly_data[k].net_cash_flow
            = monthly_data[k].total_deposits - monthly_data[k].total_withdrawals

C1_Witness ==
    \E j, k \in DOMAIN monthly_data :
        /\ monthly_data[j].deposit_count > 0
        /\ monthly_data[j].withdrawal_count > 0
        /\ monthly_data[j].net_cash_flow # 0
        /\ monthly_data[k].withdrawal_count = 0
        /\ monthly_data[k].beginning_balance > 0
        /\ monthly_data[k].net_cash_flow < 0

Undated(t) ==
    \/ TxnDateField(t).kind = "none"
    \/ /\ TxnDateField(t).kind = "str"
       /\ StrptimeIso(TxnDateField(t).chars) = NoneVal
       /\ StrptimeUs(TxnDateField(t).chars) = NoneVal

\* C3: load_transactions drops a transaction whose date is missing or parses
\* under neither format, record or mapping alike, without raising, and the
\* other transactions are bucketed as if it were not there.
C3_UndatedDropped ==
    ( /\ last.op = "load_transactions"
      /\ last.fresh
      /\ \A i \in 1..Len(transactions) : Undated(transactions[i]) \/ Supported(transactions[i])
      /\ \E i \in 1..Len(transactions) : Undated(transactions[i]) )
    => /\ ~last.raised
       /\ \A k \in DOMAIN monthly_data :
             \E i \in 1..Len(transactions) :
                 /\ ~Undated(transactions[i])
                 /\ MonthKey(TxnDate(transactions[i]).year, TxnDate(transactions[i]).month) = k

ReportName == "generate_underwriting_summary"

EmptyAnalyzer == transactions = <<>> /\ monthly_data = EmptyDict

\* The mapping categorize_deposits gives when nothing was categorized.
ZeroCategories(r) ==
    /\ DOMAIN r = CategoryNames \cup {"total_categorized"}
    /\ r["total_categorized"] = 0
    /\ \A c \in CategoryNames :
          r[c] = [total |-> 0, count |-> 0, pct_of_total |-> Frac(0, 1)]

\* The mapping check_nsf_overdraft gives when nothing matched.
ZeroNsf(r) == r = [nsf_count |-> 0, nsf_total_fees |-> 0, severity |-> "NONE"]

ReportSections ==
    {"trailing_averages", "monthly_trends", "deposit_categories", "large_deposits",
     "balance_trends", "nsf_overdraft", "average_daily_balance"}

\* C4 as stated: with no transactions and no monthly data each of the seven
\* methods returns an empty mapping, and the report has every analysis
\* sub-mapping empty, no red flags, no warnings and flag_count 0.
C4_AllEmpty ==
    (EmptyAnalyzer /\ ~last.raised)
    => /\ last.op \in Methods => last.val = EmptyDict
       /\ last.op = ReportName
          => /\ \A k \in ReportSections : last.val[k] = EmptyDict
             /\ last.val.red_flags = <<>>
             /\ last.val.warnings = <<>>
             /\ last.val.flag_count = 0

\* C4, amended: with no transactions and no monthly data no method raises;
\* five methods return an empty mapping, categorize_deposits returns the five
\* categories zeroed and check_nsf_overdraft a zero count with severity NONE;
\* the report carries these, has no red flags, and, when no result was kept
\* from earlier inputs, has large_deposits empty, no warnings and flag_count 0.
C4_EmptyInputs ==
    EmptyAnalyzer
    => /\ last.op \in Methods \cup {ReportName} => ~last.raised
       /\ last.op \in Methods \ {"categorize_deposits", "check_nsf_overdraft"}
          => last.val = EmptyDict
       /\ last.op = "categorize_deposits" => ZeroCategories(last.val)
       /\ last.op = "check_nsf_overdraft" => ZeroNsf(last.val)
       /\ last.op = ReportName
          => /\ \A k \in {"trailing_averages", "monthly_trends", "balance_trends",
                          "average_daily_balance"} : last.val[k] = EmptyDict
             /\ ZeroCategories(last.val.deposit_categories)
             /\ ZeroNsf(last.val.nsf_overdraft)
             /\ last.val.red_flags = <<>>
             /\ last.val.flag_count = Len(last.val.warnings)
             /\ base = EmptyDict
                => /\ last.val.large_deposits = EmptyDict
                   /\ last.val.warnings = <<>>
                   /\ last.val.flag_count = 0

C4_Witness ==
    /\ EmptyAnalyzer
    /\ last.op = ReportName
    /\ ~last.raised
    /\ base = EmptyDict
    /\ ran = Methods
    /\ DOMAIN analysis = {"deposit_categories", "nsf_overdraft"}
    /\ last.val.flag_count = 0

\* C5: when the balance_change_pct of the balance trends is below -20, the
\* report lists the declining-balance message among its red flags.
C5_DecliningBalanceRedFlag ==
    ( /\ last.op = ReportName
      /\ ~last.raised
      /\ "balance_change_pct" \in DOMAIN last.val.balance_trends
      /\ FLt(last.val.balance_trends["balance_change_pct"], -20) )
    => \E i \in 1..Len(last.val.red_flags) :
          last.val.red_flags[i].msg = "Declining balance trend"

\* The transactions whose upper-cased description holds an NSF keyword.
NsfWords ==
    { <<"N", "S", "F">>,
      <<"I", "N", "S", "U", "F", "F", "I", "C", "I", "E", "N", "T">>,
      <<"O", "V", "E", "R", "D", "R", "A", "F", "T">>,
      <<"O", "D", " ", "F", "E", "E">>,
      <<"R", "E", "T", "U", "R", "N", "E", "D", " ", "I", "T", "E", "M">> }

NsfItems(txns) ==
    { i \in 1..Len(txns) : \E w \in NsfWords : Contains(Upper(TxnDescription(txns[i])), w) }

\* How many flags of a list are about NSF activity.
NsfMessages(flags) ==
    Cardinality({ i \in 1..Len(flags) :
                    flags[i].msg \in {"High NSF activity", "NSF activity present"} })

\* C6: in the report, with n the NSF items of the current transactions: n > 5
\* puts one NSF message in red_flags and none in warnings, 1 <= n <= 5 puts one
\* in warnings and none in red_flags, n = 0 puts none anywhere; flag_count is
\* the length of warnings plus the length of red_flags.
C6_NsfTiers ==
    (last.op = ReportName /\ ~last.raised)
    => /\ Cardinality(NsfItems(transactions)) > 5
          => NsfMessages(last.val.red_flags) = 1 /\ NsfMessages(last.val.warnings) = 0
       /\ Cardinality(NsfItems(transactions)) \in 1..5
          => NsfMessages(last.val.red_flags) = 0 /\ NsfMessages(last.val.warnings) = 1
       /\ Cardinality(NsfItems(transactions)) = 0
          => NsfMessages(last.val.red_flags) = 0 /\ NsfMessages(last.val.warnings) = 0
       /\ last.val.flag_count = Len(last.val.warnings) + Len(last.val.red_flags)

C6_Witness ==
    /\ last.op = ReportName
    /\ ~last.raised
    /\ Cardinality(NsfItems(transactions)) = 6
    /\ NsfMessages(last.val.red_flags) = 1
    /\ last.val.flag_count > 0

\* C7: an analysis method or the report, called twice in a row with no input
\* operation between, returns the same value both times; no analysis call
\* changes transactions or monthly_data.
C7_Idempotent ==
    [][ last'.op \in Methods \cup {ReportName}
        => /\ transactions' = transactions
           /\ monthly_data' = monthly_data
           /\ last'.op = last.op
              => last'.val = last.val /\ last'.raised = last.raised ]_vars

C7_Witness ==
    /\ last.again
    /\ ~last.raised
    /\ last.op = "categorize_deposits"
    /\ last.val["total_categorized"] > 0
    /\ last.val["ach"].count > 0

\* The calls of ran in the order the report makes them.
InReportOrder(done) == SelectSeq(RunOrder, LAMBDA m : m \in done)

\* self.analysis after the calls of done made in report order from the
\* analysis the inputs left.
Canonical(done) ==
    RunAll(InReportOrder(done), transactions, monthly_data, [analysis |-> base, done |-> {}]).analysis

\* The entry a method writes when it has no other analysis to look at.
OwnEntry(m) == Method(m, transactions, monthly_data, EmptyDict).analysis

\* C8: on fixed inputs the seven analysis methods can be called in any order:
\* self.analysis is what the report's order gives, each entry is what its
\* method computes without any other entry and is otherwise the one kept
\* from before, and once all seven ran the summary is the one
\* generate_underwriting_summary returns.
C8_OrderIndependent ==
    /\ analysis = Canonical(ran)
    /\ \A m \in ran :
          IF AnalysisKey(m) \in DOMAIN OwnEntry(m)
          THEN /\ AnalysisKey(m) \in DOMAIN analysis
               /\ analysis[AnalysisKey(m)] = OwnEntry(m)[AnalysisKey(m)]
          ELSE /\ AnalysisKey(m) \in DOMAIN analysis <=> AnalysisKey(m) \in DOMAIN base
               /\ AnalysisKey(m) \in DOMAIN base => analysis[AnalysisKey(m)] = base[AnalysisKey(m)]
    /\ \A m \in Methods \ ran :
          /\ AnalysisKey(m) \in DOMAIN analysis <=> AnalysisKey(m) \in DOMAIN base
          /\ AnalysisKey(m) \in DOMAIN base => analysis[AnalysisKey(m)] = base[AnalysisKey(m)]
    /\ ran = Methods
       => Summary(analysis) = UnderwritingSummary(transactions, monthly_data, base).val

C8_Witness ==
    /\ ran = Methods
    /\ last.op = "calculate_trailing_averages"
    /\ DOMAIN analysis = ReportSections
    /\ transactions # <<>>
    /\ FGt(analysis["average_daily_balance"].average_daily_balance, 0)

\* The n greatest period keys of md under string comparison.
GreatestKeys(md, n) ==
    { k \in DOMAIN md : Cardinality({ j \in DOMAIN md : StrLess(k, j) }) < n }

FEq(a, b) == a.num * b.den = b.num * a.den

DepositsOf(md) == [k \in DOMAIN md |-> md[k].total_deposits]

WindowName(n) == CASE n = 3 -> "3_month" [] n = 6 -> "6_month" [] n = 12 -> "12_month"

\* The window of n months as calculate_trailing_averages reported it.
WindowReported(r, md, n, keys) ==
    /\ keys = GreatestKeys(md, n)
    /\ Cardinality(keys) = Min(n, Cardinality(DOMAIN md))
    /\ r[WindowName(n)].months = Cardinality(keys)
    /\ FEq(r[WindowName(n)].avg_deposits, Frac(SumOver(keys, DepositsOf(md)), Cardinality(keys)))

\* C9: after calculate_trailing_averages on a non-empty monthly_data, the
\* window of N months, N in 3, 6, 12, is made of the N greatest period keys, has
\* min(N, number of buckets) months, which is the 'months' it reports, and its
\* average is over exactly those buckets; the 3-month window is within the
\* 6-month one and that within the 12-month one.
C9_Windows ==
    (last.op = "calculate_trailing_averages" /\ monthly_data # EmptyDict)
    => /\ ~last.raised
       /\ \A n \in {3, 6, 12} :
             WindowReported(last.val, monthly_data, n, Range(TrailingWindow(monthly_data, n)))
       /\ Range(TrailingWindow(monthly_data, 3)) \subseteq Range(TrailingWindow(monthly_data, 6))
       /\ Range(TrailingWindow(monthly_data, 6)) \subseteq Range(TrailingWindow(monthly_data, 12))
       /\ last.val.months_available = Cardinality(DOMAIN monthly_data)

C9_Witness ==
    /\ last.op = "calculate_trailing_averages"
    /\ Cardinality(DOMAIN monthly_data) = 13
    /\ last.val["12_month"].months = 12
    /\ last.val["3_month"].months = 3
    /\ MonthKey(999, 12) \in Range(TrailingWindow(monthly_data, 3))
    /\ MonthKey(2023, 1) \notin Range(TrailingWindow(monthly_data, 12))

\* The categories in the order their keywords are tried.
CategoryRules ==
    << [category |-> "wire", words |-> {<<"W", "I", "R", "E">>, <<"O", "R", "I", "G", ":">>}],
       [category |-> "ach", words |-> {<<"A", "C", "H">>}],
       [category |-> "cash", words |-> {<<"C", "A", "S", "H">>, <<"A", "T", "M">>}],
       [category |-> "card", words |-> {<<"C", "A", "R", "D">>,
                                        <<"M", "E", "R", "C", "H", "A", "N", "T">>}] >>

Matching(desc) ==
    { i \in 1..Len(CategoryRules) : \E w \in CategoryRules[i].words : Contains(desc, w) }

FirstMatch(desc) ==
    IF Matching(desc) = {} THEN "other"
    ELSE CategoryRules[CHOOSE i \in Matching(desc) : \A j \in Matching(desc) : i <= j].category

Positive(txns) == { i \in 1..Len(txns) : TxnAmount(txns[i]) > 0 }

InCategory(txns, c) ==
    { i \in Positive(txns) : FirstMatch(Upper(TxnDescription(txns[i]))) = c }

\* C10: categorize_deposits puts each transaction of positive amount in
\* exactly one category, the first of wire, ach, cash, card whose keyword its
\* upper-cased description holds and other when none does; the totals of the
\* five categories add up to total_categorized and their counts to the number
\* of positive-amount transactions.
C10_Categories ==
    (last.op = "categorize_deposits" /\ ~last.raised)
    => /\ \A c \in CategoryNames :
             /\ last.val[c].count = Cardinality(InCategory(transactions, c))
             /\ last.val[c].total = SumOver(InCategory(transactions, c), Amounts(transactions))
       /\ last.val["ach"].total + last.val["wire"].total + last.val["cash"].total
             + last.val["card"].total + last.val["other"].total
          = last.val["total_categorized"]
       /\ last.val["ach"].count + last.val["wire"].count + last.val["cash"].count
             + last.val["card"].count + last.val["other"].count
          = Cardinality(Positive(transactions))

C10_Witness ==
    /\ last.op = "categorize_deposits"
    /\ ~last.raised
    /\ last.val["wire"].count = 1
    /\ last.val["cash"].count = 1
    /\ last.val["ach"].count = 0
    /\ \E i \in 1..Len(transactions) :
          Contains(Upper(TxnDescription(transactions[i])), <<"A", "C", "H">>)

\* C11: load_transactions places a transaction in the bucket of its date's
\* year and month in each of the six combinations of shape (record, mapping)
\* and date form (date object, YYYY-MM-DD string, MM/DD/YYYY string), without
\* raising.
C11_SixCombinations ==
    ( /\ last.op = "load_transactions"
      /\ last.fresh
      /\ \A i \in 1..Len(transactions) : TxnDate(transactions[i]) # NoneVal )
    => /\ ~last.raised
       /\ \A i \in 1..Len(transactions) :
             MonthKey(TxnDate(transactions[i]).year, TxnDate(transactions[i]).month)
                 \in DOMAIN monthly_data

ConversionName == "to_cash_flow_summary"

\* A number that is 0; None is not one.
IsZero(v) == "num" \in DOMAIN v /\ v.num = 0

\* The entry of a report section, and what stands for it when it is not there.
Entry(section, key, default) == IF key \in DOMAIN section THEN section[key] ELSE default

\* The fields of CashFlowSummary that to_cash_flow_summary never sets.
UnsetFieldsZero(c) ==
    /\ IsZero(c.true_revenue_90d)
    /\ IsZero(c.total_deposits_90d)
    /\ IsZero(c.total_withdrawals_90d)
    /\ IsZero(c.mca_payment_total)
    /\ IsZero(c.deposit_consistency)
    /\ IsZero(c.cash_flow_margin)
    /\ c.negative_days = 0

\* The fields taken from the report, and the fields the conversion never sets.
ReportCarried(c, rep) ==
    /\ c.monthly_true_revenue = Entry(rep.trailing_averages, "avg_3_month_deposits", FZero)
    /\ c.average_daily_balance = Entry(rep.average_daily_balance, "average_daily_balance", FZero)
    /\ c.nsf_count = Entry(rep.nsf_overdraft, "nsf_count", 0)
    /\ c.trend = Entry(rep.trailing_averages, "trend", "stable")
    /\ c.red_flags = rep.red_flags
    /\ c.warnings = rep.warnings
    /\ UnsetFieldsZero(c)

\* C12 as stated: to_cash_flow_summary carries the report's 3-month average
\* in monthly_true_revenue and trailing_3mo_avg, the 6- and 12-month averages
\* in trailing_6mo_avg and trailing_12mo_avg, and every numeric field the
\* report leaves unset, the three trailing averages included, is 0, with trend
\* "stable".
C12_ZeroDefaults ==
    (last.op = ConversionName /\ ~last.raised)
    => /\ ReportCarried(last.val, Summary(analysis))
       /\ last.val.trailing_3mo_avg
             = Entry(Summary(analysis).trailing_averages, "avg_3_month_deposits", FZero)
       /\ last.val.trailing_6mo_avg
             = Entry(Summary(analysis).trailing_averages, "avg_6_month_deposits", FZero)
       /\ last.val.trailing_12mo_avg
             = Entry(Summary(analysis).trailing_averages, "avg_12_month_deposits", FZero)

\* C12, amended: the same mapping, except that a trailing average the report
\* does not have is None in trailing_3mo_avg, trailing_6mo_avg and
\* trailing_12mo_avg: with no buckets all three are None while
\* monthly_true_revenue is 0 and trend is "stable"; with buckets all three are
\* numbers and trailing_3mo_avg equals monthly_true_revenue.
C12_Conversion ==
    (last.op = ConversionName /\ ~last.raised)
    => /\ ReportCarried(last.val, Summary(analysis))
       /\ last.val.trailing_3mo_avg
             = Entry(Summary(analysis).trailing_averages, "avg_3_month_deposits", NoneVal)
       /\ last.val.trailing_6mo_avg
             = Entry(Summary(analysis).trailing_averages, "avg_6_month_deposits", NoneVal)
       /\ last.val.trailing_12mo_avg
             = Entry(Summary(analysis).trailing_averages, "avg_12_month_deposits", NoneVal)
       /\ monthly_data = EmptyDict
          => /\ last.val.trailing_3mo_avg = NoneVal
             /\ last.val.trailing_6mo_avg = NoneVal
             /\ last.val.trailing_12mo_avg = NoneVal
             /\ IsZero(last.val.monthly_true_revenue)
             /\ last.val.trend = "stable"
       /\ monthly_data # EmptyDict
          => /\ last.val.trailing_3mo_avg = last.val.monthly_true_revenue
             /\ last.val.trailing_3mo_avg
                   = Mean(TotalDeposits(monthly_data, TrailingWindow(monthly_data, 3)))
             /\ last.val.trailing_6mo_avg
                   = Mean(TotalDeposits(monthly_data, TrailingWindow(monthly_data, 6)))
             /\ last.val.trailing_12mo_avg
                   = Mean(TotalDeposits(monthly_data, TrailingWindow(monthly_data, 12)))

C12_Witness ==
    /\ last.op = ConversionName
    /\ ~last.raised
    /\ monthly_data = EmptyDict
    /\ last.val.trailing_3mo_avg = NoneVal
    /\ last.val.trailing_12mo_avg = NoneVal
    /\ IsZero(last.val.monthly_true_revenue)
    /\ last.val.trend = "stable"

\* The period key of md with exactly n greater keys.
KeyAt(md, n) ==
    CHOOSE k \in DOMAIN md : Cardinality({ j \in DOMAIN md : StrLess(k, j) }) = n

\* The label for newest and third-newest total_deposits.
TrendLabel(newest, third) ==
    IF 10 * newest > 11 * third THEN "increasing"
    ELSE IF 10 * newest < 9 * third THEN "decreasing"
    ELSE "stable"

\* Scenario A: three buckets of 10000, 9000 and 8000, newest to oldest.
ScenarioA ==
    /\ DOMAIN monthly_data = {MonthKey(2024, 1), MonthKey(2024, 2), MonthKey(2024, 3)}
    /\ monthly_data[MonthKey(2024, 3)].total_deposits = 10000
    /\ monthly_data[MonthKey(2024, 2)].total_deposits = 9000
    /\ monthly_data[MonthKey(2024, 1)].total_deposits = 8000

\* C13: calculate_trailing_averages labels the trend from the newest and the
\* third-newest bucket: with three buckets or more 'increasing' when the
\* newest total_deposits exceeds 1.1 times the third-newest, 'decreasing' when
\* it is below 0.9 times it, else 'stable'; with one or two buckets 'stable'.
\* For 10000, 9000, 8000 the 3-month average is 9000 and the trend
\* 'increasing'.
C13_Trend ==
    (last.op = "calculate_trailing_averages" /\ monthly_data # EmptyDict)
    => /\ ~last.raised
       /\ Cardinality(DOMAIN monthly_data) >= 3
          => last.val.trend = TrendLabel(monthly_data[KeyAt(monthly_data, 0)].total_deposits,
                                         monthly_data[KeyAt(monthly_data, 2)].total_deposits)
       /\ Cardinality(DOMAIN monthly_data) < 3 => last.val.trend = "stable"
       /\ ScenarioA
          => /\ last.val.trend = "increasing"
             /\ FEq(last.val["avg_3_month_deposits"], Frac(9000, 1))
             /\ FEq(last.val["3_month"].avg_deposits, Frac(9000, 1))

C13_Witness ==
    /\ last.op = "calculate_trailing_averages"
    /\ ScenarioA
    /\ last.val.trend = "increasing"
    /\ last.val["3_month"].months = 3

\* What a method returns on the inputs as they are, whatever self.analysis holds.
Current(m) == Method(m, transactions, monthly_data, EmptyDict).val

\* C14: each of the seven sub-mappings of the report is what its analysis
\* method returns for the current transactions and buckets, empty when the
\* method returns an empty mapping, and the flags are those of these
\* sub-mappings: nothing computed from earlier inputs is reported.
C14_ReportCurrent ==
    (last.op = ReportName /\ ~last.raised)
    => /\ \A m \in Methods : last.val[AnalysisKey(m)] = Current(m)
       /\ last.val.red_flags
             = NsfFlags(Current("check_nsf_overdraft"))[1]
               \o BalanceFlags(Current("analyze_balance_trends"))[1]
       /\ last.val.warnings
             = NsfFlags(Current("check_nsf_overdraft"))[2]
               \o TrendFlags(Current("calculate_monthly_trends"))
               \o LargeFlags(Current("analyze_large_deposits"))
               \o BalanceFlags(Current("analyze_balance_trends"))[2]

============================================================================
